---------------------------- MODULE Spec2Model ----------------------------
(***************************************************************************)
(* A model of the claim-data ETL pipeline of src/etl.py: extract_data,     *)
(* transform_data and main.                                                *)
(*                                                                         *)
(* A table (pandas DataFrame) is a record [cols, rows]: cols is the        *)
(* sequence of column names, rows the sequence of rows, each row a         *)
(* sequence of cells aligned with cols.  A cell is a record [k, n, s]:     *)
(*   k = "int"    an integer, n its value                                  *)
(*   k = "float"  a float, n its value counted in halves (n = 2 * value);  *)
(*                the only floats the transform creates from integer data  *)
(*                are medians, which are multiples of one half             *)
(*   k = "inf"    the float infinity                                       *)
(*   k = "nan"    the missing marker NaN                                   *)
(*   k = "str"    a text value, s its characters                           *)
(* Column names are strings and are processed character by character.      *)
(***************************************************************************)
EXTENDS Integers, Sequences, FiniteSets, TLC

VARIABLES pc, file, raw_df, clean_df, again_df, sink, log

vars == <<pc, file, raw_df, clean_df, again_df, sink, log>>

-----------------------------------------------------------------------------
(* Bounds of the model *)

MaxRows == 3

\* Rows of the tables of SpecBins, whose rows take every age of the binning
\* examples.
MaxBinRows == 2

-----------------------------------------------------------------------------
(* Cells *)

IntCell(v) == [k |-> "int", n |-> v, s |-> ""]

FloatCell(h) == [k |-> "float", n |-> h, s |-> ""]

StrCell(t) == [k |-> "str", n |-> 0, s |-> t]

NaN == [k |-> "nan", n |-> 0, s |-> ""]

Inf == [k |-> "inf", n |-> 0, s |-> ""]

\* Python's None: the absent-result signal of extract_data and transform_data.
None == [cols |-> <<"<None>">>, rows |-> <<>>]

\* pd.isna of a cell
IsNa(c) == c.k = "nan"

\* A finite number, as twice its value (ints and floats on one scale).
IsNum(c) == c.k \in {"int", "float"}

Halves(c) == IF c.k = "int" THEN 2 * c.n ELSE c.n

-----------------------------------------------------------------------------
(* Strings *)

UpperCase == "ABCDEFGHIJKLMNOPQRSTUVWXYZ"

LowerCase == "abcdefghijklmnopqrstuvwxyz"

Digits == "0123456789"

CharAt(s, i) == SubSeq(s, i, i)

\* str.lower() of one character
LowerChar(c) ==
    IF \E i \in 1..Len(UpperCase) : CharAt(UpperCase, i) = c
    THEN CharAt(LowerCase, CHOOSE i \in 1..Len(UpperCase) : CharAt(UpperCase, i) = c)
    ELSE c

RECURSIVE StrLower(_)
StrLower(s) ==
    IF Len(s) = 0 THEN ""
    ELSE LowerChar(CharAt(s, 1)) \o StrLower(SubSeq(s, 2, Len(s)))

\* str.replace(old, new) for a one-character old
RECURSIVE StrReplace(_, _, _)
StrReplace(s, old, new) ==
    IF Len(s) = 0 THEN ""
    ELSE (IF CharAt(s, 1) = old THEN new ELSE CharAt(s, 1))
         \o StrReplace(SubSeq(s, 2, Len(s)), old, new)

IsDigit(c) == \E i \in 1..Len(Digits) : CharAt(Digits, i) = c

DigitValue(c) == (CHOOSE i \in 1..Len(Digits) : CharAt(Digits, i) = c) - 1

RECURSIVE DigitsValue(_, _)
DigitsValue(s, acc) ==
    IF Len(s) = 0 THEN acc
    ELSE DigitsValue(SubSeq(s, 2, Len(s)), 10 * acc + DigitValue(CharAt(s, 1)))

IsDigits(s) == Len(s) > 0 /\ \A i \in 1..Len(s) : IsDigit(CharAt(s, i))

\* str(n) of an integer
RECURSIVE NatToStr(_)
NatToStr(n) ==
    IF n < 10 THEN CharAt(Digits, n + 1)
    ELSE NatToStr(n \div 10) \o CharAt(Digits, (n % 10) + 1)

IntToStr(n) == IF n < 0 THEN "-" \o NatToStr(-n) ELSE NatToStr(n)

-----------------------------------------------------------------------------
(* DataFrame operations *)

NRows(t) == Len(t.rows)

HasCol(t, name) == \E i \in 1..Len(t.cols) : t.cols[i] = name

\* Position of a column; the model's tables have distinct column names.
ColPos(t, name) == CHOOSE i \in 1..Len(t.cols) : t.cols[i] = name

\* df[name]
GetCol(t, name) == [r \in 1..NRows(t) |-> t.rows[r][ColPos(t, name)]]

\* df[name] = vals: an existing column is replaced in place, a new one is
\* appended as the last column.
SetCol(t, name, vals) ==
    IF HasCol(t, name)
    THEN [t EXCEPT !.rows = [r \in 1..NRows(t) |->
                                [t.rows[r] EXCEPT ![ColPos(t, name)] = vals[r]]]]
    ELSE [cols |-> Append(t.cols, name),
          rows |-> [r \in 1..NRows(t) |-> Append(t.rows[r], vals[r])]]

RECURSIVE Without(_, _)
Without(seq, drop) ==
    IF seq = <<>> THEN <<>>
    ELSE IF drop[1] THEN Without(Tail(seq), Tail(drop))
         ELSE <<Head(seq)>> \o Without(Tail(seq), Tail(drop))

\* df.drop(columns=names, inplace=True), every name being a column
DropCols(t, names) ==
    LET drop == [i \in 1..Len(t.cols) |-> t.cols[i] \in names]
    IN [cols |-> Without(t.cols, drop),
        rows |-> [r \in 1..NRows(t) |-> Without(t.rows[r], drop)]]

-----------------------------------------------------------------------------
(* Series operations *)

\* Order of two non-missing numeric cells; infinity is the greatest.
CellLeq(a, b) ==
    \/ b.k = "inf"
    \/ a.k # "inf" /\ Halves(a) <= Halves(b)

RECURSIVE Insert(_, _)
Insert(c, sorted) ==
    IF sorted = <<>> THEN <<c>>
    ELSE IF CellLeq(c, Head(sorted)) THEN <<c>> \o sorted
         ELSE <<Head(sorted)>> \o Insert(c, Tail(sorted))

RECURSIVE SortCells(_)
SortCells(seq) ==
    IF seq = <<>> THEN <<>> ELSE Insert(Head(seq), SortCells(Tail(seq)))

RECURSIVE SelectCells(_, _)
SelectCells(seq, keep) ==
    IF seq = <<>> THEN <<>>
    ELSE IF keep[1] THEN <<Head(seq)>> \o SelectCells(Tail(seq), Tail(keep))
         ELSE SelectCells(Tail(seq), Tail(keep))

\* The non-missing cells of a column, in row order.
NonMissing(col) == SelectCells(col, [i \in 1..Len(col) |-> ~IsNa(col[i])])

\* A column holding text makes Series.median raise TypeError.
MedianRaises(col) == \E i \in 1..Len(col) : col[i].k = "str"

\* Faulty variant of Median: the lower of the two middle values instead of their mean.
MedianLowerMiddle(col) ==
    LET v == SortCells(NonMissing(col))
        m == Len(v)
    IN IF m = 0 THEN NaN
       ELSE IF v[(m + 1) \div 2].k = "inf" THEN Inf
       ELSE FloatCell(Halves(v[(m + 1) \div 2]))

\* Series.median(): the median of the non-missing values, NaN when there is
\* none; the middle value, or the mean of the two middle values.  The values
\* are integers (or infinity), so the mean of two is a whole number of halves.
Median(col) ==
    LET v == SortCells(NonMissing(col))
        m == Len(v)
    IN IF m = 0 THEN NaN
       ELSE IF m % 2 = 1
            THEN (IF v[(m + 1) \div 2].k = "inf" THEN Inf
                  ELSE FloatCell(Halves(v[(m + 1) \div 2])))
            ELSE (IF v[(m \div 2) + 1].k = "inf" THEN Inf
                  ELSE FloatCell((Halves(v[m \div 2]) + Halves(v[(m \div 2) + 1])) \div 2))

\* Series.fillna(value)
FillNa(col, value) == [i \in 1..Len(col) |-> IF IsNa(col[i]) THEN value ELSE col[i]]

\* pd.to_numeric(x, errors='coerce') of one cell: numbers stay, text that
\* reads as a decimal integer becomes that integer, "inf" becomes infinity,
\* any other text becomes NaN.
ToNumeric(c) ==
    IF c.k # "str" THEN c
    ELSE IF IsDigits(c.s) THEN IntCell(DigitsValue(c.s, 0))
    ELSE IF c.s = "inf" THEN Inf
    ELSE NaN

\* int(x) of a finite float in halves: truncation toward zero.
TruncHalves(h) == IF h >= 0 THEN h \div 2 ELSE -((-h) \div 2)

\* astype(int) of one numeric cell
AsInt(c) == IF c.k = "int" THEN c ELSE IntCell(TruncHalves(c.n))

\* astype(int) raises on a column holding NaN or infinity.
AsIntRaises(col) == \E i \in 1..Len(col) : col[i].k \in {"nan", "inf"}

\* astype(str) of one cell of an object or integer column
AsStr(c) ==
    IF c.k = "str" THEN c
    ELSE IF c.k = "int" THEN StrCell(IntToStr(c.n))
    ELSE IF c.k = "nan" THEN StrCell("nan")
    ELSE IF c.k = "inf" THEN StrCell("inf")
    ELSE StrCell((IF c.n < 0 THEN "-" ELSE "")
                 \o NatToStr((IF c.n < 0 THEN -c.n ELSE c.n) \div 2)
                 \o (IF c.n % 2 = 0 THEN ".0" ELSE ".5"))

-----------------------------------------------------------------------------
(* transform_data, step by step.  A step state s holds                     *)
(*   df      the contents of the table object the local name df is bound to*)
(*   shared  whether that object is the caller's own table                 *)
(*   exc     the exception raised so far (NoExc when none)                 *)
(*   log     the log records emitted so far                                *)

NoExc == "none"

Logged(s, msg) == [s EXCEPT !.log = Append(@, msg)]

Raise(s, e) == [s EXCEPT !.exc = e]

\* Faulty variant of DfCopy: no copy, the statements work on the caller's table.
DfNoCopy(s) == s

\* df = df.copy(): the local name is rebound to a fresh object.
DfCopy(s) == [s EXCEPT !.shared = FALSE]

\* Faulty variant of StandardizeName: lower case only, spaces kept.
StandardizeNameLowerOnly(name) == StrLower(name)

\* df.columns = df.columns.str.lower().str.replace(' ', '_')
StandardizeName(name) == StrReplace(StrLower(name), " ", "_")

StandardizeColumns(s) ==
    Logged([s EXCEPT !.df.cols = [i \in 1..Len(s.df.cols) |-> StandardizeName(s.df.cols[i])]],
           "Standardized column names.")

\* df['age'] = pd.to_numeric(df['age'], errors='coerce')
CleanAge(s) ==
    IF ~HasCol(s.df, "age") THEN Raise(s, "KeyError")
    ELSE LET age == GetCol(s.df, "age")
         IN Logged([s EXCEPT !.df = SetCol(s.df, "age",
                                           [i \in 1..Len(age) |-> ToNumeric(age[i])])],
                   "Cleaned 'age' column by coercing non-numeric values to NaN.")

\* df[name] = df[name].fillna(df[name].median())
FillWithMedian(s, name) ==
    IF ~HasCol(s.df, name) THEN Raise(s, "KeyError")
    ELSE IF MedianRaises(GetCol(s.df, name)) THEN Raise(s, "TypeError")
    ELSE [s EXCEPT !.df = SetCol(s.df, name,
                                 FillNa(GetCol(s.df, name), Median(GetCol(s.df, name))))]

FillCreditScore(s) == FillWithMedian(s, "credit_score")

FillAnnualMileage(s) == FillWithMedian(s, "annual_mileage")

\* The fixed default used when no age survived coercion.
DefaultAge == 30

\* Faulty variant of AgeMedian: a median that does not skip missing values, so that
\* the default is used whenever any age is missing.
AgeMedianNoSkipNa(col) ==
    IF \E i \in 1..Len(col) : IsNa(col[i]) THEN IntCell(DefaultAge) ELSE Median(col)

\* age_median = df['age'].median(); 30 when that is NaN
AgeMedian(col) == IF IsNa(Median(col)) THEN IntCell(DefaultAge) ELSE Median(col)

\* Faulty variant of FillAge: the rows with a missing age are dropped, not filled.
FillAgeDropRows(s) ==
    LET age == GetCol(s.df, "age")
    IN Logged([s EXCEPT !.df.rows = SelectCells(s.df.rows,
                                                [r \in 1..Len(age) |-> ~IsNa(age[r])])],
              "Handled missing values in 'credit_score', 'annual_mileage', and 'age'.")

FillAge(s) ==
    LET age == GetCol(s.df, "age")
        s1 == IF IsNa(Median(age))
              THEN Logged(s, "Could not calculate median age. Filling missing ages with 30.")
              ELSE s
    IN Logged([s1 EXCEPT !.df = SetCol(s.df, "age", FillNa(age, AgeMedian(age)))],
              "Handled missing values in 'credit_score', 'annual_mileage', and 'age'.")

\* df['id'] = df['id'].astype(str)
IdToStr(s) ==
    IF ~HasCol(s.df, "id") THEN Raise(s, "KeyError")
    ELSE LET id == GetCol(s.df, "id")
         IN [s EXCEPT !.df = SetCol(s.df, "id", [i \in 1..Len(id) |-> AsStr(id[i])])]

\* df['age'] = df['age'].astype(int)
AgeToInt(s) ==
    LET age == GetCol(s.df, "age")
    IN IF AsIntRaises(age) THEN Raise(s, "ValueError")
       ELSE Logged([s EXCEPT !.df = SetCol(s.df, "age", [i \in 1..Len(age) |-> AsInt(age[i])])],
                   "Corrected data types.")

age_bins == <<16, 25, 40, 65, 100>>

age_labels == <<"16-25", "26-40", "41-65", "65+">>

\* numpy searchsorted(bins, x, side='right'): how many edges are <= x
SearchSortedRight(bins, x) == Cardinality({i \in 1..Len(bins) : bins[i] <= x})

\* Faulty variant of Cut: pd.cut with its default right=True, the intervals
\* (bins[i], bins[i+1]].
CutRightClosed(x, bins, labels) ==
    LET ids == Cardinality({i \in 1..Len(bins) : bins[i] < x})
    IN IF ids = 0 \/ ids = Len(bins) THEN NaN ELSE StrCell(labels[ids])

\* pd.cut(x, bins, labels, right=False) of one integer: the label of the
\* interval [bins[i], bins[i+1]) holding x, NaN when no interval holds it.
Cut(x, bins, labels) ==
    LET ids == SearchSortedRight(bins, x)
    IN IF ids = 0 \/ ids = Len(bins) THEN NaN ELSE StrCell(labels[ids])

\* df['age_group'] = pd.cut(df['age'], bins=age_bins, labels=age_labels, right=False)
MakeAgeGroup(s) ==
    LET age == GetCol(s.df, "age")
    IN [s EXCEPT !.df = SetCol(s.df, "age_group",
                               [i \in 1..Len(age) |-> Cut(age[i].n, age_bins, age_labels)])]

\* x > 0 raises TypeError on text.
GreaterThanZeroRaises(c) == c.k = "str"

\* Faulty variant of HadPastAccidents: x >= 0 instead of x > 0.
HadPastAccidentsOrZero(c) ==
    IF c.k = "inf" \/ (IsNum(c) /\ c.n >= 0) THEN IntCell(1) ELSE IntCell(0)

\* lambda x: 1 if x > 0 else 0   (NaN > 0 is False)
HadPastAccidents(c) ==
    IF c.k = "inf" \/ (IsNum(c) /\ c.n > 0) THEN IntCell(1) ELSE IntCell(0)

\* df['had_past_accidents'] = df['past_accidents'].apply(...)
MakeHadPastAccidents(s) ==
    IF ~HasCol(s.df, "past_accidents") THEN Raise(s, "KeyError")
    ELSE LET pa == GetCol(s.df, "past_accidents")
         IN IF \E i \in 1..Len(pa) : GreaterThanZeroRaises(pa[i]) THEN Raise(s, "TypeError")
            ELSE Logged([s EXCEPT !.df = SetCol(s.df, "had_past_accidents",
                                                [i \in 1..Len(pa) |-> HadPastAccidents(pa[i])])],
                        "Engineered new features: 'age_group' and 'had_past_accidents'.")

\* df.drop(columns=['age', 'past_accidents'], inplace=True)
DropOriginal(s) ==
    Logged([s EXCEPT !.df = DropCols(s.df, {"age", "past_accidents"})],
           "Dropped original columns: 'age', 'past_accidents'.")

\* The statements of transform_data after the log record of line 47, in
\* program order.
Statements ==
    <<"DfCopy", "StandardizeColumns", "CleanAge", "FillCreditScore", "FillAnnualMileage",
      "FillAge", "IdToStr", "AgeToInt", "MakeAgeGroup", "MakeHadPastAccidents",
      "DropOriginal">>

Execute(stmt, s) ==
    CASE stmt = "DfCopy" -> DfCopy(s)
      [] stmt = "StandardizeColumns" -> StandardizeColumns(s)
      [] stmt = "CleanAge" -> CleanAge(s)
      [] stmt = "FillCreditScore" -> FillCreditScore(s)
      [] stmt = "FillAnnualMileage" -> FillAnnualMileage(s)
      [] stmt = "FillAge" -> FillAge(s)
      [] stmt = "IdToStr" -> IdToStr(s)
      [] stmt = "AgeToInt" -> AgeToInt(s)
      [] stmt = "MakeAgeGroup" -> MakeAgeGroup(s)
      [] stmt = "MakeHadPastAccidents" -> MakeHadPastAccidents(s)
      [] stmt = "DropOriginal" -> DropOriginal(s)

\* Sequencing: the statements from the i-th on; a statement runs only when
\* nothing was raised before it.  (The state before a statement is evaluated
\* once, as the element of a singleton.)
RECURSIVE RunFrom(_, _)
RunFrom(s, i) ==
    IF i > Len(Statements) THEN s
    ELSE CHOOSE after \in {IF before.exc # NoExc THEN before
                           ELSE RunFrom(Execute(Statements[i], before), i + 1)
                           : before \in {s}} : TRUE

\* The body of transform_data for a table.
TransformSteps(t) ==
    CHOOSE r \in {IF end.exc # NoExc THEN end ELSE Logged(end, "Data transformation complete.")
                  : end \in {RunFrom([df |-> t, shared |-> TRUE, exc |-> NoExc,
                                      log |-> <<"Starting data transformation...">>], 1)}} : TRUE

\* transform_data(df): the returned value (ret, meaningful when exc = NoExc),
\* the exception raised, the caller's table after the call (arg) and the log
\* records emitted.
transform_data(df) ==
    IF df = None
    THEN [ret |-> None, exc |-> NoExc, arg |-> None,
          log |-> <<"Transformation skipped: Input DataFrame is None.">>]
    ELSE CHOOSE r \in {[ret |-> s.df, exc |-> s.exc,
                         arg |-> IF s.shared THEN s.df ELSE df,
                         log |-> s.log] : s \in {TransformSteps(df)}} : TRUE

-----------------------------------------------------------------------------
(* The pipeline: extract_data, main *)

\* What the path RAW_DATA_PATH holds: no file, a file read_csv cannot parse,
\* or the table read_csv yields.
NoFile == [cols |-> <<"<no file>">>, rows |-> <<>>]

Unparsable == [cols |-> <<"<unparsable>">>, rows |-> <<>>]

\* A name not yet bound, a file not yet written.
Unset == [cols |-> <<"<unset>">>, rows |-> <<>>]

IsTable(t) == t \notin {None, NoFile, Unparsable, Unset}

\* Faulty variant of extract_data: FileNotFoundError is not caught.
extract_data_uncaught(f) ==
    IF f \in {NoFile, Unparsable}
    THEN [ret |-> None, exc |-> "Error", log |-> <<"Starting data extraction">>]
    ELSE [ret |-> f, exc |-> NoExc,
          log |-> <<"Starting data extraction", "Successfully extracted rows of data.">>]

\* extract_data(file_path): FileNotFoundError is caught and None returned,
\* any other error of read_csv propagates.
extract_data(f) ==
    IF f = NoFile
    THEN [ret |-> None, exc |-> NoExc,
          log |-> <<"Starting data extraction", "Extraction failed: File not found">>]
    ELSE IF f = Unparsable
    THEN [ret |-> None, exc |-> "ParserError", log |-> <<"Starting data extraction">>]
    ELSE [ret |-> f, exc |-> NoExc,
          log |-> <<"Starting data extraction", "Successfully extracted rows of data.">>]

\* main, step 1: raw_df = extract_data(RAW_DATA_PATH)
Extract ==
    /\ pc = "extract"
    /\ \E r \in {extract_data(file)} :
          /\ log' = <<"--- Starting ETL Pipeline ---">> \o r.log
          /\ raw_df' = IF r.exc = NoExc THEN r.ret ELSE raw_df
          /\ pc' = IF r.exc = NoExc THEN "transform" ELSE "crashed"
    /\ UNCHANGED <<file, clean_df, again_df, sink>>

\* A call result = transform_data(raw_df) at position at, continuing at next;
\* an exception leaves the caller (uncaught) and ends the run.
CallTransform(at, next, result, result2) ==
    /\ pc = at
    /\ \E r \in {transform_data(raw_df)} :
          /\ log' = log \o r.log
          /\ raw_df' = r.arg
          /\ result2 = IF r.exc = NoExc THEN r.ret ELSE result
          /\ pc' = IF r.exc = NoExc THEN next ELSE "crashed"

\* main, step 2: clean_df = transform_data(raw_df)
Transform ==
    /\ CallTransform("transform", "load", clean_df, clean_df')
    /\ UNCHANGED <<file, again_df, sink>>

\* main, step 3, clean_df is not None: clean_df.to_csv(CLEAN_DATA_PATH,
\* index=False) and the success banner; a failing write propagates.
Load ==
    /\ pc = "load"
    /\ clean_df # None
    /\ \E written \in BOOLEAN :
          IF written
          THEN /\ sink' = clean_df
               /\ log' = log \o <<"Starting data loading", "Data loading complete.",
                                  "--- ETL Pipeline Finished Successfully ---">>
               /\ pc' = "done"
          ELSE /\ sink' = sink
               /\ log' = Append(log, "Starting data loading")
               /\ pc' = "crashed"
    /\ UNCHANGED <<file, raw_df, clean_df, again_df>>

\* main, step 3, clean_df is None: the failure report.
ReportFailure ==
    /\ pc = "load"
    /\ clean_df = None
    /\ log' = Append(log, "--- ETL Pipeline Failed ---")
    /\ pc' = "done"
    /\ UNCHANGED <<file, raw_df, clean_df, again_df, sink>>

Next == Extract \/ Transform \/ Load \/ ReportFailure

\* A caller that transforms the table it extracted twice, handing the second
\* call the very object the first call received.
FirstCall ==
    /\ CallTransform("transform", "again", clean_df, clean_df')
    /\ UNCHANGED <<file, again_df, sink>>

SecondCall ==
    /\ CallTransform("again", "done", again_df, again_df')
    /\ UNCHANGED <<file, clean_df, sink>>

NextTwice == Extract \/ FirstCall \/ SecondCall

-----------------------------------------------------------------------------
(* Input tables.  A layout is the header of a file: for each column its    *)
(* name as written and the field of a record it holds.  The layouts have   *)
(* distinct names after standardization, and the id column holds integers  *)
(* or text.                                                                *)

Col(name, fld) == [name |-> name, fld |-> fld]

\* The header of Car_Insurance_Claim.csv, cut to the columns the transform
\* reads and one passthrough column.
LayoutRaw ==
    <<Col("ID", "id"), Col("AGE", "age"), Col("CREDIT_SCORE", "credit_score"),
      Col("ANNUAL_MILEAGE", "annual_mileage"), Col("PAST_ACCIDENTS", "past_accidents"),
      Col("OUTCOME", "other")>>

\* Mixed case, spaces, another column order.
LayoutSpaced ==
    <<Col("Vehicle Type", "other"), Col("Past Accidents", "past_accidents"),
      Col("Id", "id"), Col("Annual Mileage", "annual_mileage"),
      Col("Age", "age"), Col("Credit Score", "credit_score")>>

\* A passthrough column that standardizes to the name of a derived column.
LayoutDerived ==
    <<Col("id", "id"), Col("Age Group", "other"), Col("age", "age"),
      Col("credit_score", "credit_score"), Col("annual_mileage", "annual_mileage"),
      Col("past_accidents", "past_accidents")>>

\* Standardized names, but for a passthrough column.
LayoutPlain ==
    <<Col("id", "id"), Col("age", "age"), Col("Vehicle Type", "other"),
      Col("credit_score", "credit_score"), Col("annual_mileage", "annual_mileage"),
      Col("past_accidents", "past_accidents")>>

\* No past_accidents column.
LayoutShort ==
    <<Col("id", "id"), Col("age", "age"), Col("credit_score", "credit_score"),
      Col("annual_mileage", "annual_mileage"), Col("outcome", "other")>>

MakeTable(layout, recs) ==
    [cols |-> [i \in 1..Len(layout) |-> layout[i].name],
     rows |-> [r \in 1..Len(recs) |-> [i \in 1..Len(layout) |-> recs[r][layout[i].fld]]]]

SeqsUpTo(S, n) == UNION {[1..m -> S] : m \in 0..n}

Records(ids, ages, scores, mileages, accidents, others) ==
    [id : ids, age : ages, credit_score : scores, annual_mileage : mileages,
     past_accidents : accidents, other : others]

Tables(layouts, recs, n) ==
    {MakeTable(l, rs) : l \in layouts, rs \in SeqsUpTo(recs, n)}

InitWith(files) ==
    /\ pc = "extract"
    /\ file \in files
    /\ raw_df = Unset
    /\ clean_df = Unset
    /\ again_df = Unset
    /\ sink = Unset
    /\ log = <<>>

\* The pipeline over every layout, with malformed and missing cells.
PipelineRecords ==
    Records({IntCell(7)}, {IntCell(30), StrCell("bad")}, {IntCell(1), NaN}, {NaN},
            {IntCell(1)}, {StrCell("x"), NaN})

Init ==
    InitWith({NoFile, Unparsable}
             \cup Tables({LayoutRaw, LayoutSpaced, LayoutDerived, LayoutPlain, LayoutShort},
                         PipelineRecords, MaxRows))

Spec == Init /\ [][Next]_vars

\* A caller that transforms a table twice.
InitTwice ==
    InitWith({NoFile, Unparsable}
             \cup Tables({LayoutSpaced, LayoutShort}, PipelineRecords, MaxRows))

SpecTwice == InitTwice /\ [][NextTwice]_vars

\* Binning: every age of the examples of the binning rule.
BinAges ==
    {IntCell(a) : a \in {10, 16, 25, 26, 40, 41, 65, 66, 100, 101}}
    \cup {StrCell("bad"), NaN}

InitBins ==
    InitWith({NoFile, Unparsable}
             \cup Tables({LayoutRaw},
                         Records({IntCell(7)}, BinAges, {IntCell(1)}, {IntCell(9)},
                                 {IntCell(0)}, {StrCell("x")}),
                         MaxBinRows))

SpecBins == InitBins /\ [][Next]_vars

\* Ages: numbers on and off the bin edges, text, numeric text, missing.
InitAge ==
    InitWith({NoFile, Unparsable}
             \cup Tables({LayoutRaw},
                         Records({IntCell(7)},
                                 {IntCell(10), IntCell(16), IntCell(25), IntCell(40),
                                  IntCell(100), StrCell("bad"), StrCell("41"),
                                  StrCell("inf"), NaN},
                                 {IntCell(1)}, {IntCell(9)}, {NaN}, {StrCell("x")}),
                         MaxRows))

SpecAge == InitAge /\ [][Next]_vars

\* credit_score and annual_mileage: numbers, missing, text; every age is
\* malformed.
InitFill ==
    InitWith({NoFile, Unparsable}
             \cup Tables({LayoutRaw},
                         Records({IntCell(7)}, {StrCell("bad")},
                                 {IntCell(1), IntCell(2), IntCell(5), NaN, StrCell("bad")},
                                 {IntCell(4), NaN}, {IntCell(0)}, {StrCell("x")}),
                         MaxRows))

SpecFill == InitFill /\ [][Next]_vars

\* past_accidents: positive, zero, negative, missing, text.
InitFlag ==
    InitWith({NoFile, Unparsable}
             \cup Tables({LayoutRaw},
                         Records({IntCell(7)}, {IntCell(30), StrCell("bad")},
                                 {IntCell(1)}, {IntCell(9)},
                                 {IntCell(2), IntCell(0), IntCell(-1), NaN, StrCell("two")},
                                 {StrCell("x")}),
                         MaxRows))

SpecFlag == InitFlag /\ [][Next]_vars

-----------------------------------------------------------------------------
(* Vocabulary of the properties.  The input table is file, which no action *)
(* changes; the output table is clean_df.                                  *)

\* transform_data returned a table.
Returned == IsTable(clean_df)

\* transform_data raised: the run ended between the extraction and the
\* binding of clean_df.
TransformRaised == pc = "crashed" /\ raw_df # Unset /\ clean_df = Unset

\* The standardized form of the column names the layouts use.
NormalForm(name) ==
    CASE name \in {"ID", "Id"} -> "id"
      [] name \in {"AGE", "Age"} -> "age"
      [] name \in {"CREDIT_SCORE", "Credit Score"} -> "credit_score"
      [] name \in {"ANNUAL_MILEAGE", "Annual Mileage"} -> "annual_mileage"
      [] name \in {"PAST_ACCIDENTS", "Past Accidents"} -> "past_accidents"
      [] name = "OUTCOME" -> "outcome"
      [] name = "Vehicle Type" -> "vehicle_type"
      [] name = "Age Group" -> "age_group"
      [] OTHER -> name

Column(t, i) == [r \in 1..Len(t.rows) |-> t.rows[r][i]]

\* The input column that standardizes to name, the output column name.
InCol(name) ==
    Column(file, CHOOSE i \in 1..Len(file.cols) : NormalForm(file.cols[i]) = name)

OutCol(name) ==
    Column(clean_df, CHOOSE i \in 1..Len(clean_df.cols) : clean_df.cols[i] = name)

InHas(name) == \E i \in 1..Len(file.cols) : NormalForm(file.cols[i]) = name

OutHas(name) == \E i \in 1..Len(clean_df.cols) : clean_df.cols[i] = name

Rows == 1..Len(file.rows)

\* The median of the integers vals[r], r in idx (idx not empty), in halves:
\* the sum of the lower and the upper middle value by rank.
RankLeq(vals, idx, v) == Cardinality({r \in idx : vals[r] <= v})

MiddleValue(vals, idx, rank) ==
    CHOOSE v \in {vals[r] : r \in idx} :
        /\ RankLeq(vals, idx, v) >= rank
        /\ \A w \in {vals[r] : r \in idx} : RankLeq(vals, idx, w) >= rank => v <= w

MedianHalves(vals, idx) ==
    MiddleValue(vals, idx, (Cardinality(idx) + 1) \div 2)
    + MiddleValue(vals, idx, (Cardinality(idx) \div 2) + 1)

\* The ages that survive numeric coercion: integers and numeric text.
AgeSurvives(c) == c.k = "int" \/ c = StrCell("41")

AgeValue(c) == IF c.k = "int" THEN c.n ELSE 41

Survivors == {r \in Rows : AgeSurvives(InCol("age")[r])}

\* The integer age of row r after imputation: its own value, or the median
\* of the surviving ages cut to an integer, or 30 when no age survives.
FinalAge(r) ==
    IF r \in Survivors THEN AgeValue(InCol("age")[r])
    ELSE IF Survivors = {} THEN 30
    ELSE MedianHalves([q \in Rows |-> AgeValue(InCol("age")[q])], Survivors) \div 2

Has(msg) == \E i \in 1..Len(log) : log[i] = msg

Before(m1, m2) == \E i, j \in 1..Len(log) : i < j /\ log[i] = m1 /\ log[j] = m2

-----------------------------------------------------------------------------
(* C1 *)

\* The age_group the binning rule is said to give an integer age.
StatedAgeGroup(a) ==
    IF 16 <= a /\ a < 25 THEN StrCell("16-25")
    ELSE IF 25 <= a /\ a < 40 THEN StrCell("26-40")
    ELSE IF 40 <= a /\ a < 65 THEN StrCell("41-65")
    ELSE IF 65 <= a /\ a <= 100 THEN StrCell("65+")
    ELSE NaN

\* C1: every integer age a gets age_group '16-25' for 16 <= a < 25, '26-40'
\* for 25 <= a < 40, '41-65' for 40 <= a < 65, '65+' for 65 <= a <= 100 (100
\* included), and missing below 16 or above 100.
C1_AgeGroupOfEveryAge ==
    Returned =>
        \A r \in Rows :
            InCol("age")[r].k = "int" =>
                OutCol("age_group")[r] = StatedAgeGroup(InCol("age")[r].n)

-----------------------------------------------------------------------------
(* C2 *)

\* C2: the returned table has as many rows as the input, in the same order:
\* row r of the output is made from row r of the input (its credit_score is
\* the input's, or a fill value or still missing where the input's was
\* missing; its passthrough cell is the input's).
C2_RowsPreserved ==
    Returned =>
        /\ Len(clean_df.rows) = Len(file.rows)
        /\ \A r \in Rows :
              /\ ~IsNa(InCol("credit_score")[r])
                    => OutCol("credit_score")[r] = InCol("credit_score")[r]
              /\ IsNa(InCol("credit_score")[r])
                    => OutCol("credit_score")[r].k \in {"nan", "float"}
              /\ InHas("outcome") => OutCol("outcome")[r] = InCol("outcome")[r]
              /\ InHas("vehicle_type") => OutCol("vehicle_type")[r] = InCol("vehicle_type")[r]

\* A returned table of at least two rows whose ages are all malformed and
\* whose credit_score and annual_mileage are all missing.
C2_Witness ==
    /\ Returned
    /\ Len(file.rows) >= 2
    /\ \A r \in Rows :
          /\ InCol("age")[r] = StrCell("bad")
          /\ IsNa(InCol("credit_score")[r])
          /\ IsNa(InCol("annual_mileage")[r])

-----------------------------------------------------------------------------
(* C3 *)

Present(name) == {r \in Rows : ~IsNa(InCol(name)[r])}

MedianFilled(name) ==
    \A r \in Rows :
        /\ ~IsNa(OutCol(name)[r])
        /\ r \in Present(name) => OutCol(name)[r] = InCol(name)[r]
        /\ r \notin Present(name) =>
              OutCol(name)[r] =
                  FloatCell(MedianHalves([q \in Rows |-> InCol(name)[q].n], Present(name)))

\* C3: when credit_score and annual_mileage each have a non-missing value,
\* the output has no missing entry in them: a missing entry holds the median
\* of the column's originally non-missing values, any other entry is unchanged.
C3_MedianFill ==
    (Returned /\ Present("credit_score") # {} /\ Present("annual_mileage") # {}) =>
        MedianFilled("credit_score") /\ MedianFilled("annual_mileage")

\* A returned table whose credit_score holds 1, 2 and a missing entry (the
\* median is 1.5) and whose annual_mileage holds a missing entry too.
C3_Witness ==
    /\ Returned
    /\ \E r \in Rows : InCol("credit_score")[r] = IntCell(1)
    /\ \E r \in Rows : InCol("credit_score")[r] = IntCell(2)
    /\ \E r \in Rows : IsNa(InCol("credit_score")[r])
                       /\ OutCol("credit_score")[r] = FloatCell(3)
    /\ \E r \in Rows : IsNa(InCol("annual_mileage")[r])
    /\ Present("annual_mileage") # {}

-----------------------------------------------------------------------------
(* C4 *)

\* C4 as stated: no row of the output has a missing age_group or a missing
\* had_past_accidents.
C4_NoMissingDerived ==
    Returned =>
        \A r \in Rows :
            ~IsNa(OutCol("age_group")[r]) /\ ~IsNa(OutCol("had_past_accidents")[r])

\* C4 as amended: had_past_accidents is never missing; age_group is not
\* missing in a row whose integer age after imputation is at least 16 and
\* below 100, and is missing when that age is below 16 or above 100.
C4_MissingOnlyOutOfRange ==
    Returned =>
        \A r \in Rows :
            /\ ~IsNa(OutCol("had_past_accidents")[r])
            /\ (16 <= FinalAge(r) /\ FinalAge(r) < 100) => ~IsNa(OutCol("age_group")[r])
            /\ (FinalAge(r) < 16 \/ FinalAge(r) > 100) => IsNa(OutCol("age_group")[r])

\* A returned table with missing past_accidents, a row of age 10 (unmapped)
\* and a row of age 16 (mapped).
C4_Witness ==
    /\ Returned
    /\ \E r \in Rows : InCol("age")[r] = IntCell(10) /\ IsNa(OutCol("age_group")[r])
    /\ \E r \in Rows : InCol("age")[r] = IntCell(16) /\ ~IsNa(OutCol("age_group")[r])
    /\ \A r \in Rows : IsNa(InCol("past_accidents")[r])

-----------------------------------------------------------------------------
(* C5 *)

\* C5: for past_accidents an integer or missing, had_past_accidents is 1
\* exactly when past_accidents > 0 and 0 otherwise (zero, negative, missing).
C5_HadPastAccidents ==
    Returned =>
        \A r \in Rows :
            InCol("past_accidents")[r].k \in {"int", "nan"} =>
                OutCol("had_past_accidents")[r] =
                    IF InCol("past_accidents")[r].k = "int" /\ InCol("past_accidents")[r].n > 0
                    THEN IntCell(1) ELSE IntCell(0)

\* A returned table with a positive, a negative and a missing past_accidents.
C5_Witness ==
    /\ Returned
    /\ \E r \in Rows : InCol("past_accidents")[r] = IntCell(2)
                       /\ OutCol("had_past_accidents")[r] = IntCell(1)
    /\ \E r \in Rows : InCol("past_accidents")[r] = IntCell(-1)
                       /\ OutCol("had_past_accidents")[r] = IntCell(0)
    /\ \E r \in Rows : IsNa(InCol("past_accidents")[r])
                       /\ OutCol("had_past_accidents")[r] = IntCell(0)

-----------------------------------------------------------------------------
(* C6 *)

\* C6: on a table with the expected columns transform_data never aborts on
\* a non-numeric age or past_accidents: once it was called it has returned a
\* table, in which a text past_accidents counts as no past accident.
C6_NeverAbortsOnMalformedField ==
    (IsTable(file) /\ pc \notin {"extract", "transform"}) =>
        /\ ~TransformRaised
        /\ Returned
        /\ \A r \in Rows :
              InCol("past_accidents")[r].k = "str" =>
                  OutCol("had_past_accidents")[r] = IntCell(0)

-----------------------------------------------------------------------------
(* C7 *)

\* C7: when the input file does not exist, extract_data returns None without
\* raising, transform_data(None) returns None without raising, nothing is
\* loaded and the run ends in the failure report; a load and the success
\* banner happen only after extraction and transformation both yielded a
\* table, in the order extract, transform, load.
C7_AbsentFileShortCircuits ==
    /\ (file = NoFile /\ pc # "extract") => raw_df = None
    /\ (file = NoFile /\ pc \notin {"extract", "transform"}) => clean_df = None
    /\ file = NoFile =>
          /\ pc # "crashed"
          /\ sink = Unset
          /\ ~Has("Starting data loading")
          /\ ~Has("--- ETL Pipeline Finished Successfully ---")
    /\ (file = NoFile /\ pc = "done") => log[Len(log)] = "--- ETL Pipeline Failed ---"
    /\ (sink # Unset \/ Has("--- ETL Pipeline Finished Successfully ---")) =>
          /\ IsTable(raw_df)
          /\ IsTable(clean_df)
          /\ sink = clean_df
          /\ Before("Successfully extracted rows of data.", "Starting data transformation...")
          /\ Before("Data transformation complete.", "Starting data loading")
          /\ Before("Data loading complete.", "--- ETL Pipeline Finished Successfully ---")

\* The run on a missing file has ended, in the failure report.
C7_Witness ==
    /\ file = NoFile
    /\ pc = "done"
    /\ Has("Extraction failed: File not found")
    /\ Has("Transformation skipped: Input DataFrame is None.")
    /\ Has("--- ETL Pipeline Failed ---")

-----------------------------------------------------------------------------
(* C8 *)

\* C8: a call of transform_data leaves the caller's table as it was, and a
\* second call on the same table object returns the table the first call
\* returned.
C8_SecondCallSameOutput ==
    /\ (IsTable(file) /\ pc \in {"again", "done"}) => raw_df = file
    /\ pc = "done" => again_df = clean_df

\* Both calls returned, on a table with rows.
C8_Witness ==
    /\ pc = "done"
    /\ IsTable(again_df)
    /\ Len(file.rows) >= 2
    /\ Has("Standardized column names.")

-----------------------------------------------------------------------------
(* C9 *)

NormalCols == [i \in 1..Len(file.cols) |-> NormalForm(file.cols[i])]

\* The output schema C9 states: the standardized input names in their order,
\* less age and past_accidents, then age_group and had_past_accidents; and
\* every passthrough column as in the input.
StatedSchema ==
    /\ clean_df.cols =
          Without(NormalCols, [i \in 1..Len(file.cols) |->
                                  NormalCols[i] \in {"age", "past_accidents"}])
          \o <<"age_group", "had_past_accidents">>
    /\ \A i \in 1..Len(file.cols) :
          NormalCols[i] \notin {"id", "age", "credit_score", "annual_mileage",
                                "past_accidents"}
              => OutHas(NormalCols[i]) /\ OutCol(NormalCols[i]) = Column(file, i)

\* C9 as stated: for every input table.
C9_OutputSchema == Returned => StatedSchema

\* C9 as amended: for every input table none of whose standardized column
\* names is age_group or had_past_accidents.
C9_OutputSchemaNoClash ==
    (Returned /\ ~InHas("age_group") /\ ~InHas("had_past_accidents")) => StatedSchema

\* A returned table with rows whose header had upper case and spaces.
C9_Witness ==
    /\ Returned
    /\ file.cols[1] = "Vehicle Type"
    /\ Len(file.rows) >= 2
    /\ OutHas("vehicle_type")
    /\ ~OutHas("age")

-----------------------------------------------------------------------------
(* C10 *)

\* C10: a row whose age is missing or not numeric gets the age_group of the
\* median of the ages that survived coercion, cut to an integer; when no age
\* survived, every row gets the age_group of 30, '26-40'.
C10_ImputedAgeGroup ==
    Returned =>
        /\ \A r \in Rows \ Survivors :
              OutCol("age_group")[r] = Cut(FinalAge(r), age_bins, age_labels)
        /\ Survivors = {} => \A r \in Rows : OutCol("age_group")[r] = StrCell("26-40")

\* A returned table with ages 16, 25 and a text: the median 20.5 is cut to 20.
C10_Witness ==
    /\ Returned
    /\ \E r \in Rows : InCol("age")[r] = IntCell(16)
    /\ \E r \in Rows : InCol("age")[r] = IntCell(25)
    /\ \E r \in Rows : InCol("age")[r] = StrCell("bad")
                       /\ FinalAge(r) = 20
                       /\ OutCol("age_group")[r] = StrCell("16-25")

=============================================================================
